---- MODULE Spec2Model ----
(***************************************************************************)
(* Weapon detection API: the streaming pipeline of                         *)
(* DetectionService.generate_video_stream driven by the GET /detect/stream *)
(* route, the single-shot DetectionService.detect_from_camera, and the     *)
(* upload path of POST /detect/image and POST /detect/image/annotated.     *)
(***************************************************************************)
EXTENDS Integers, Sequences, FiniteSets, TLC

(* ------------------------------ bounds --------------------------------- *)
\* stream sessions (concurrent GET /detect/stream requests)
NumSessions == 2
\* largest frame_skip a session is started with (the route allows 0..10)
MaxSkip == 1
\* frames the cameras deliver over a run, all sessions together; after that
\* a read can only signal end of stream or fail
MaxReads == 3
\* POST /detect/camera/frame requests
NumCamReqs == 3
\* requests in flight in the server process at the same time
NumRequests == 3
\* threads using the model wrapper at the same time
NumThreads == 3
\* rows of a model result, and the largest class id
MaxBoxes == 2
MaxClassId == 1
\* largest height and width of a decoded image, in pixels
MaxDim == 4
\* largest upload length and largest configured max_image_size, in bytes
MaxBytes == 3

Sessions == 1..NumSessions
CamReqs == 1..NumCamReqs
Threads == 1..NumThreads
Requests == 1..NumRequests

VARIABLES
    \* generate_video_stream, one generator per session
    pc,            \* position of the generator / of the response
    frame_skip,    \* argument frame_skip
    frame_count,   \* local frame_count
    cap,           \* local cap: "none", "unopened", "open", "released"
    releases,      \* number of cap.release() calls
    exc,           \* exception in flight or raised out of the generator
    cause,         \* why the loop was left
    log,           \* one entry per frame read from the camera
    emitted,       \* (frame_bytes, detection_result) pairs yielded
    sent,          \* multipart parts handed to the response by the route
    http_status,   \* status of the response that has been started (0: none)
    \* detect_from_camera behind POST /detect/camera/frame
    cam_pc, cam_cap, cam_releases, cam_inferred, cam_exc, cam_status,
    \* POST /detect/image and POST /detect/image/annotated
    settings,      \* Settings fields used by the upload path
    img,           \* the upload being handled and its outcome
    \* YOLOModelWrapper (models/yolo_model.py) and the threads that use it
    instance,      \* cls._instance: "none" or "created"
    lock,          \* holder of cls._lock (0: free)
    initialized,   \* self._initialized: "unset" (no attribute), "False", "True"
    model,         \* self.model: "unset", "None" or "loaded"
    wsettings,     \* self._settings: "unset", "None" or "settings"
    load_settings,           \* the Settings object handed to load_model
    requested,     \* device and half_precision as configured
    cuda_available, \* torch.cuda.is_available()
    tpc,           \* position of each thread
    top,           \* operation each thread performs after get_model()
    tresult,       \* how that operation ended
    tseen,         \* whether a load_model call had succeeded when it was decided
    constructions, \* YOLO(model_path) constructions
    loads_ok,      \* load_model calls that returned after loading
    calls,         \* invocations of the underlying model
    \* one call of a function of the detection pipeline, with its result
    call,
    \* the server process: one event loop thread runs every handler
    loop,          \* request whose handler occupies the event loop thread (0: none)
    request        \* kind and position of every request

stream_vars == <<pc, frame_skip, frame_count, cap, releases, exc, cause, log,
                 emitted, sent, http_status>>
camera_vars == <<cam_pc, cam_cap, cam_releases, cam_inferred, cam_exc, cam_status>>
image_vars  == <<settings, img>>
load_vars   == <<instance, lock, initialized, model, wsettings, load_settings, requested,
                 cuda_available, tpc, top, tresult, tseen, constructions, loads_ok,
                 calls>>
loop_vars   == <<loop, request>>
vars == <<stream_vars, camera_vars, image_vars, load_vars, call, loop_vars>>

(* ------------------------- core/exceptions.py -------------------------- *)
\* status_code each exception class passes to WeaponDetectionException
StatusCode(e) ==
    CASE e = "InvalidImageException"   -> 400
      [] e = "ImageTooLargeException"  -> 413
      [] e = "CameraNotFoundException" -> 404
      [] e = "DetectionException"      -> 500
      [] e = "VideoStreamException"    -> 500
      [] e = "ModelLoadException"      -> 500
      [] OTHER                         -> 500

(* --------------------- generate_video_stream --------------------------- *)
\* the frame-skip test of the loop: `frame_count % (frame_skip + 1) != 0`
ShouldSkip_Inverted(count, skip) == count % (skip + 1) = 0
ShouldSkip_Never(count, skip) == FALSE
ShouldSkip(count, skip) == count % (skip + 1) # 0

\* ceil(n / (k+1))
CeilDiv(n, d) == (n + d - 1) \div d

Last(seq) == seq[Len(seq)]

RECURSIVE SumLen(_, _)
SumLen(f, n) == IF n = 0 THEN 0 ELSE Len(f[n]) + SumLen(f, n - 1)
\* frames read so far by all sessions
TotalReads == SumLen(log, NumSessions)
SetLast(seq, fate) == [seq EXCEPT ![Len(seq)].fate = fate]

\* cap = None; frame_count = 0 (the state of a generator not yet called)
NoSession ==
    /\ pc = [s \in Sessions |-> "idle"]
    /\ frame_skip = [s \in Sessions |-> 0]
    /\ frame_count = [s \in Sessions |-> 0]
    /\ cap = [s \in Sessions |-> "none"]
    /\ releases = [s \in Sessions |-> 0]
    /\ exc = [s \in Sessions |-> "none"]
    /\ cause = [s \in Sessions |-> "none"]
    /\ log = [s \in Sessions |-> <<>>]
    /\ emitted = [s \in Sessions |-> <<>>]
    /\ sent = [s \in Sessions |-> <<>>]
    /\ http_status = [s \in Sessions |-> 0]

\* GET /detect/stream: the handler builds frame_generator() without running
\* it and returns StreamingResponse(...), whose status code is 200; the
\* response is started before the body iterator is pulled for the first time.
\* generate_video_stream is called on that first pull with frame_count = 0.
StreamRequest(s) ==
    /\ pc[s] = "idle"
    /\ \E k \in 0..MaxSkip : frame_skip' = [frame_skip EXCEPT ![s] = k]
    /\ frame_count' = [frame_count EXCEPT ![s] = 0]
    /\ http_status' = [http_status EXCEPT ![s] = 200]
    /\ pc' = [pc EXCEPT ![s] = "open"]
    /\ UNCHANGED <<cap, releases, exc, cause, log, emitted, sent>>

\* cap = cv2.VideoCapture(camera_id); if not cap.isOpened(): raise
\* CameraNotFoundException.  The constructor itself may raise, leaving cap
\* None; that exception is rewrapped as VideoStreamException.
OpenCamera_NoCheck(s) ==
    /\ pc[s] = "open"
    /\ \E outcome \in {"opened", "not_opened", "raises"} :
         CASE outcome = "opened" ->
                /\ cap' = [cap EXCEPT ![s] = "open"]
                /\ pc' = [pc EXCEPT ![s] = "read"]
                /\ UNCHANGED <<exc, cause>>
           [] outcome = "not_opened" ->
                /\ cap' = [cap EXCEPT ![s] = "unopened"]
                /\ pc' = [pc EXCEPT ![s] = "read"]
                /\ UNCHANGED <<exc, cause>>
           [] outcome = "raises" ->
                /\ exc' = [exc EXCEPT ![s] = "VideoStreamException"]
                /\ cause' = [cause EXCEPT ![s] = "open_raised"]
                /\ pc' = [pc EXCEPT ![s] = "finally"]
                /\ UNCHANGED cap
    /\ UNCHANGED <<frame_skip, frame_count, releases, log, emitted, sent, http_status>>

OpenCamera(s) ==
    /\ pc[s] = "open"
    /\ \E outcome \in {"opened", "not_opened", "raises"} :
         CASE outcome = "opened" ->
                /\ cap' = [cap EXCEPT ![s] = "open"]
                /\ pc' = [pc EXCEPT ![s] = "read"]
                /\ UNCHANGED <<exc, cause>>
           [] outcome = "not_opened" ->
                /\ cap' = [cap EXCEPT ![s] = "unopened"]
                /\ exc' = [exc EXCEPT ![s] = "CameraNotFoundException"]
                /\ cause' = [cause EXCEPT ![s] = "open_failed"]
                /\ pc' = [pc EXCEPT ![s] = "finally"]
           [] outcome = "raises" ->
                /\ exc' = [exc EXCEPT ![s] = "VideoStreamException"]
                /\ cause' = [cause EXCEPT ![s] = "open_raised"]
                /\ pc' = [pc EXCEPT ![s] = "finally"]
                /\ UNCHANGED cap
    /\ UNCHANGED <<frame_skip, frame_count, releases, log, emitted, sent, http_status>>

\* ret, frame = cap.read(); end of stream breaks out of the loop; a frame
\* that the skip test rejects advances frame_count and is dropped; an
\* exception from read() is rewrapped as VideoStreamException.
ReadFrame(s) ==
    /\ pc[s] = "read"
    /\ \/ /\ TotalReads < MaxReads
          /\ IF ShouldSkip(frame_count[s], frame_skip[s])
             THEN /\ log' = [log EXCEPT ![s] =
                        Append(@, [count |-> frame_count[s], fate |-> "skipped"])]
                  /\ frame_count' = [frame_count EXCEPT ![s] = @ + 1]
                  /\ UNCHANGED pc
             ELSE /\ log' = [log EXCEPT ![s] =
                        Append(@, [count |-> frame_count[s], fate |-> "selected"])]
                  /\ pc' = [pc EXCEPT ![s] = "process"]
                  /\ UNCHANGED frame_count
          /\ UNCHANGED <<exc, cause>>
       \/ /\ cause' = [cause EXCEPT ![s] = "eos"]
          /\ pc' = [pc EXCEPT ![s] = "finally"]
          /\ UNCHANGED <<exc, log, frame_count>>
       \/ /\ exc' = [exc EXCEPT ![s] = "VideoStreamException"]
          /\ cause' = [cause EXCEPT ![s] = "read_raised"]
          /\ pc' = [pc EXCEPT ![s] = "finally"]
          /\ UNCHANGED <<log, frame_count>>
    /\ UNCHANGED <<frame_skip, cap, releases, emitted, sent, http_status>>

\* the per-frame try block: predict, _process_results, plot, imencode, yield.
\* On success the pair is yielded and frame_generator turns it into one
\* multipart part; `except Exception: continue` drops a failed frame and
\* goes back to the read without touching frame_count.
ProcessFrame_Propagate(s) ==
    /\ pc[s] = "process"
    /\ \/ /\ log' = [log EXCEPT ![s] = SetLast(@, "emitted")]
          /\ emitted' = [emitted EXCEPT ![s] =
                Append(@, [frame_number |-> frame_count[s], raw |-> Len(log[s]) - 1])]
          /\ sent' = [sent EXCEPT ![s] = Append(@, frame_count[s])]
          /\ pc' = [pc EXCEPT ![s] = "suspended"]
          /\ UNCHANGED <<exc, cause>>
       \/ /\ \E stage \in {"predict", "process_results", "imencode"} :
                log' = [log EXCEPT ![s] = SetLast(@, "failed")]
          /\ exc' = [exc EXCEPT ![s] = "VideoStreamException"]
          /\ cause' = [cause EXCEPT ![s] = "frame_failed"]
          /\ pc' = [pc EXCEPT ![s] = "finally"]
          /\ UNCHANGED <<emitted, sent>>
    /\ UNCHANGED <<frame_skip, frame_count, cap, releases, http_status>>

ProcessFrame_DuplicatePart(s) ==
    /\ pc[s] = "process"
    /\ \/ /\ log' = [log EXCEPT ![s] = SetLast(@, "emitted")]
          /\ emitted' = [emitted EXCEPT ![s] =
                Append(@, [frame_number |-> frame_count[s], raw |-> Len(log[s]) - 1])]
          /\ sent' = [sent EXCEPT ![s] = Append(Append(@, frame_count[s]), frame_count[s])]
          /\ pc' = [pc EXCEPT ![s] = "suspended"]
          /\ UNCHANGED frame_count
       \/ /\ \E stage \in {"predict", "process_results", "imencode"} :
                log' = [log EXCEPT ![s] = SetLast(@, "failed")]
          /\ pc' = [pc EXCEPT ![s] = "read"]
          /\ UNCHANGED <<emitted, sent, frame_count>>
    /\ UNCHANGED <<frame_skip, cap, releases, exc, cause, http_status>>

ProcessFrame_FailureAdvances(s) ==
    /\ pc[s] = "process"
    /\ \/ /\ log' = [log EXCEPT ![s] = SetLast(@, "emitted")]
          /\ emitted' = [emitted EXCEPT ![s] =
                Append(@, [frame_number |-> frame_count[s], raw |-> Len(log[s]) - 1])]
          /\ sent' = [sent EXCEPT ![s] = Append(@, frame_count[s])]
          /\ pc' = [pc EXCEPT ![s] = "suspended"]
          /\ UNCHANGED frame_count
       \/ /\ \E stage \in {"predict", "process_results", "imencode"} :
                log' = [log EXCEPT ![s] = SetLast(@, "failed")]
          /\ frame_count' = [frame_count EXCEPT ![s] = @ + 1]
          /\ pc' = [pc EXCEPT ![s] = "read"]
          /\ UNCHANGED <<emitted, sent>>
    /\ UNCHANGED <<frame_skip, cap, releases, exc, cause, http_status>>

ProcessFrame(s) ==
    /\ pc[s] = "process"
    /\ \/ /\ log' = [log EXCEPT ![s] = SetLast(@, "emitted")]
          /\ emitted' = [emitted EXCEPT ![s] =
                Append(@, [frame_number |-> frame_count[s], raw |-> Len(log[s]) - 1])]
          /\ sent' = [sent EXCEPT ![s] = Append(@, frame_count[s])]
          /\ pc' = [pc EXCEPT ![s] = "suspended"]
       \/ /\ \E stage \in {"predict", "process_results", "imencode"} :
                log' = [log EXCEPT ![s] = SetLast(@, "failed")]
          /\ pc' = [pc EXCEPT ![s] = "read"]
          /\ UNCHANGED <<emitted, sent>>
    /\ UNCHANGED <<frame_skip, frame_count, cap, releases, exc, cause, http_status>>

\* the consumer pulls again: the generator resumes after the yield, leaves
\* the try block and runs `frame_count += 1`
Resume_NoIncrement(s) ==
    /\ pc[s] = "suspended"
    /\ pc' = [pc EXCEPT ![s] = "read"]
    /\ UNCHANGED <<frame_skip, frame_count, cap, releases, exc, cause, log, emitted,
                   sent, http_status>>

Resume(s) ==
    /\ pc[s] = "suspended"
    /\ frame_count' = [frame_count EXCEPT ![s] = @ + 1]
    /\ pc' = [pc EXCEPT ![s] = "read"]
    /\ UNCHANGED <<frame_skip, cap, releases, exc, cause, log, emitted, sent, http_status>>

\* the client disconnects while frame_generator is suspended on a part: the
\* response task is cancelled and nothing pulls from frame_generator again
Disconnect(s) ==
    /\ pc[s] = "suspended"
    /\ cause' = [cause EXCEPT ![s] = "cancelled"]
    /\ pc' = [pc EXCEPT ![s] = "abandoned"]
    /\ UNCHANGED <<frame_skip, frame_count, cap, releases, exc, log, emitted, sent,
                   http_status>>

\* the abandoned frame_generator is finalized and with it the generator it
\* was iterating: close() raises GeneratorExit at the yield.  GeneratorExit
\* is not an Exception, so neither `except Exception` clause catches it and
\* only the finally block runs.
Close_Swallowed(s) ==
    /\ pc[s] = "abandoned"
    /\ pc' = [pc EXCEPT ![s] = "read"]
    /\ UNCHANGED <<frame_skip, frame_count, cap, releases, exc, cause, log, emitted, sent,
                   http_status>>

Close(s) ==
    /\ pc[s] = "abandoned"
    /\ exc' = [exc EXCEPT ![s] = "GeneratorExit"]
    /\ pc' = [pc EXCEPT ![s] = "finally"]
    /\ UNCHANGED <<frame_skip, frame_count, cap, releases, cause, log, emitted, sent,
                   http_status>>

\* finally: if cap is not None: cap.release(); then the generator returns
\* (StopIteration), re-raises, or is closed.
Finally_NoRelease(s) ==
    /\ pc[s] = "finally"
    /\ pc' = [pc EXCEPT ![s] =
            IF exc[s] = "none" THEN "done"
            ELSE IF exc[s] = "GeneratorExit" THEN "closed" ELSE "raised"]
    /\ UNCHANGED <<frame_skip, frame_count, cap, releases, exc, cause, log, emitted, sent,
                   http_status>>

Finally_SharedHandle(s) ==
    /\ pc[s] = "finally"
    /\ IF cap[s] # "none"
       THEN /\ cap' = [t \in Sessions |-> IF cap[t] = "open" \/ t = s
                                          THEN "released" ELSE cap[t]]
            /\ releases' = [releases EXCEPT ![s] = @ + 1]
       ELSE UNCHANGED <<cap, releases>>
    /\ pc' = [pc EXCEPT ![s] =
            IF exc[s] = "none" THEN "done"
            ELSE IF exc[s] = "GeneratorExit" THEN "closed" ELSE "raised"]
    /\ UNCHANGED <<frame_skip, frame_count, exc, cause, log, emitted, sent, http_status>>

Finally(s) ==
    /\ pc[s] = "finally"
    /\ IF cap[s] # "none"
       THEN /\ cap' = [cap EXCEPT ![s] = "released"]
            /\ releases' = [releases EXCEPT ![s] = @ + 1]
       ELSE UNCHANGED <<cap, releases>>
    /\ pc' = [pc EXCEPT ![s] =
            IF exc[s] = "none" THEN "done"
            ELSE IF exc[s] = "GeneratorExit" THEN "closed" ELSE "raised"]
    /\ UNCHANGED <<frame_skip, frame_count, exc, cause, log, emitted, sent, http_status>>

\* the code of the generator that runs without waiting for the client
GeneratorStep(s) ==
    OpenCamera(s) \/ ReadFrame(s) \/ ProcessFrame(s) \/ Close(s) \/ Finally(s)


(* ------------------------ detect_from_camera --------------------------- *)
NoCamReq ==
    /\ cam_pc = [r \in CamReqs |-> "idle"]
    /\ cam_cap = [r \in CamReqs |-> "none"]
    /\ cam_releases = [r \in CamReqs |-> 0]
    /\ cam_inferred = [r \in CamReqs |-> FALSE]
    /\ cam_exc = [r \in CamReqs |-> "none"]
    /\ cam_status = [r \in CamReqs |-> 0]

\* detect_camera_frame: a WeaponDetectionException e raised by the service
\* becomes HTTPException(status_code = e.status_code)
CamFail(r, e) ==
    /\ cam_exc' = [cam_exc EXCEPT ![r] = e]
    /\ cam_status' = [cam_status EXCEPT ![r] = StatusCode(e)]
    /\ cam_pc' = [cam_pc EXCEPT ![r] = "done"]

\* cap = cv2.VideoCapture(camera_id); if not cap.isOpened(): raise
\* CameraNotFoundException (re-raised as it is); an exception of the
\* constructor is rewrapped as DetectionException.
CamOpen(r) ==
    /\ cam_pc[r] = "idle"
    /\ \E outcome \in {"opened", "not_opened", "raises"} :
         CASE outcome = "opened" ->
                /\ cam_cap' = [cam_cap EXCEPT ![r] = "open"]
                /\ cam_pc' = [cam_pc EXCEPT ![r] = "read"]
                /\ UNCHANGED <<cam_exc, cam_status>>
           [] outcome = "not_opened" ->
                /\ cam_cap' = [cam_cap EXCEPT ![r] = "unopened"]
                /\ CamFail(r, "CameraNotFoundException")
           [] outcome = "raises" ->
                /\ CamFail(r, "DetectionException")
                /\ UNCHANGED cam_cap
    /\ UNCHANGED <<cam_releases, cam_inferred>>

\* ret, frame = cap.read(); cap.release(); no frame raises
\* VideoStreamException.  An exception of read() leaves the function through
\* `except Exception` before cap.release() is reached.
CamRead_Rewrapped(r) ==
    /\ cam_pc[r] = "read"
    /\ \E outcome \in {"frame", "no_frame", "raises"} :
         CASE outcome = "frame" ->
                /\ cam_cap' = [cam_cap EXCEPT ![r] = "released"]
                /\ cam_releases' = [cam_releases EXCEPT ![r] = @ + 1]
                /\ cam_pc' = [cam_pc EXCEPT ![r] = "infer"]
                /\ UNCHANGED <<cam_exc, cam_status>>
           [] outcome = "no_frame" ->
                /\ cam_cap' = [cam_cap EXCEPT ![r] = "released"]
                /\ cam_releases' = [cam_releases EXCEPT ![r] = @ + 1]
                /\ CamFail(r, "DetectionException")
           [] outcome = "raises" ->
                /\ CamFail(r, "DetectionException")
                /\ UNCHANGED <<cam_cap, cam_releases>>
    /\ UNCHANGED cam_inferred

CamRead(r) ==
    /\ cam_pc[r] = "read"
    /\ \E outcome \in {"frame", "no_frame", "raises"} :
         CASE outcome = "frame" ->
                /\ cam_cap' = [cam_cap EXCEPT ![r] = "released"]
                /\ cam_releases' = [cam_releases EXCEPT ![r] = @ + 1]
                /\ cam_pc' = [cam_pc EXCEPT ![r] = "infer"]
                /\ UNCHANGED <<cam_exc, cam_status>>
           [] outcome = "no_frame" ->
                /\ cam_cap' = [cam_cap EXCEPT ![r] = "released"]
                /\ cam_releases' = [cam_releases EXCEPT ![r] = @ + 1]
                /\ CamFail(r, "VideoStreamException")
           [] outcome = "raises" ->
                /\ CamFail(r, "DetectionException")
                /\ UNCHANGED <<cam_cap, cam_releases>>
    /\ UNCHANGED cam_inferred

\* predict, _process_results, plot, VideoFrameDetection(frame_number=0, ...);
\* any exception is rewrapped as DetectionException
CamInfer(r) ==
    /\ cam_pc[r] = "infer"
    /\ cam_inferred' = [cam_inferred EXCEPT ![r] = TRUE]
    /\ \/ /\ cam_status' = [cam_status EXCEPT ![r] = 200]
          /\ cam_pc' = [cam_pc EXCEPT ![r] = "done"]
          /\ UNCHANGED cam_exc
       \/ \E stage \in {"predict", "process_results", "plot"} :
             CamFail(r, "DetectionException")
    /\ UNCHANGED <<cam_cap, cam_releases>>

(* --------------- POST /detect/image, /detect/image/annotated ----------- *)
\* Settings.allowed_image_formats
allowed_image_formats == {".jpg", ".jpeg", ".png", ".bmp", ".webp"}

\* suffixes of the uploaded file names, as the client wrote them
Suffixes == {".jpg", ".JPG", ".png", ".txt", ""}

\* str.lower() on those suffixes
Lower(sfx) == IF sfx = ".JPG" THEN ".jpg" ELSE sfx

\* validate_image_format: Path(filename).suffix.lower() in allowed_formats
validate_image_format(sfx, allowed) == Lower(sfx) \in allowed

\* how the steps after decoding go: predict may raise ModelLoadException
\* ("Model not loaded") or any other exception
ModelOutcomes == {"ok", "model_not_loaded", "predict_raises", "process_results_raises",
                  "encode_raises"}

\* detect_from_image_file: size check, decode, predict, _process_results.
\* Returns the exception raised ("none" on success) and what was attempted.
DetectFromImageFile_NoSizeCheck(size, decodable, outcome, max_image_size) ==
    IF ~decodable
    THEN [error |-> "InvalidImageException", decoded |-> TRUE, inferred |-> FALSE]
    ELSE IF outcome \in {"model_not_loaded", "predict_raises", "process_results_raises"}
    THEN [error |-> "DetectionException", decoded |-> TRUE, inferred |-> TRUE]
    ELSE [error |-> "none", decoded |-> TRUE, inferred |-> TRUE]

DetectFromImageFile_DomainErrorsPass(size, decodable, outcome, max_image_size) ==
    IF size > max_image_size
    THEN [error |-> "ImageTooLargeException", decoded |-> FALSE, inferred |-> FALSE]
    ELSE IF ~decodable
    THEN [error |-> "InvalidImageException", decoded |-> TRUE, inferred |-> FALSE]
    ELSE IF outcome = "model_not_loaded"
    THEN [error |-> "ModelLoadException", decoded |-> TRUE, inferred |-> TRUE]
    ELSE IF outcome \in {"predict_raises", "process_results_raises"}
    THEN [error |-> "DetectionException", decoded |-> TRUE, inferred |-> TRUE]
    ELSE [error |-> "none", decoded |-> TRUE, inferred |-> TRUE]

detect_from_image_file(size, decodable, outcome, max_image_size) ==
    IF size > max_image_size
    THEN [error |-> "ImageTooLargeException", decoded |-> FALSE, inferred |-> FALSE]
    ELSE IF ~decodable
    THEN [error |-> "InvalidImageException", decoded |-> TRUE, inferred |-> FALSE]
    ELSE IF outcome \in {"model_not_loaded", "predict_raises", "process_results_raises"}
    THEN [error |-> "DetectionException", decoded |-> TRUE, inferred |-> TRUE]
    ELSE [error |-> "none", decoded |-> TRUE, inferred |-> TRUE]

\* detect_and_annotate_image: the same, followed by plot() and imencode.  The
\* decoding has a try of its own whose `except Exception` raises
\* InvalidImageException, which the outer handlers re-raise unchanged.
DetectAndAnnotateImage_DecodeInOuterTry(size, decodable, outcome, max_image_size) ==
    IF size > max_image_size
    THEN [error |-> "ImageTooLargeException", decoded |-> FALSE, inferred |-> FALSE]
    ELSE IF ~decodable
    THEN [error |-> "DetectionException", decoded |-> TRUE, inferred |-> FALSE]
    ELSE IF outcome # "ok"
    THEN [error |-> "DetectionException", decoded |-> TRUE, inferred |-> TRUE]
    ELSE [error |-> "none", decoded |-> TRUE, inferred |-> TRUE]

detect_and_annotate_image(size, decodable, outcome, max_image_size) ==
    IF size > max_image_size
    THEN [error |-> "ImageTooLargeException", decoded |-> FALSE, inferred |-> FALSE]
    ELSE IF ~decodable
    THEN [error |-> "InvalidImageException", decoded |-> TRUE, inferred |-> FALSE]
    ELSE IF outcome # "ok"
    THEN [error |-> "DetectionException", decoded |-> TRUE, inferred |-> TRUE]
    ELSE [error |-> "none", decoded |-> TRUE, inferred |-> TRUE]

\* detect_image / detect_image_annotated: the extension is validated before
\* the bytes are read; a WeaponDetectionException e becomes
\* HTTPException(status_code = e.status_code)
RouteResult(route, sfx, size, decodable, outcome, cfg) ==
    IF ~validate_image_format(sfx, allowed_image_formats)
    THEN [error |-> "InvalidImageException", decoded |-> FALSE, inferred |-> FALSE]
    ELSE IF route = "image"
    THEN detect_from_image_file(size, decodable, outcome, cfg.max_image_size)
    ELSE detect_and_annotate_image(size, decodable, outcome, cfg.max_image_size)

\* top-level fields of the JSON body of an error response.
\* main.py registers a handler for WeaponDetectionException that answers with
\* {"error", "details", "path"} ...
weapon_detection_exception_handler == {"error", "details", "path"}

\* ... while the /detect routes catch every WeaponDetectionException themselves
\* and raise HTTPException(detail = {"error", "details"}), which is answered
\* with the detail nested under the single field "detail".
HTTPExceptionBody == {"detail"}

\* the body the route answers with for the exception `error` of its try block
RouteErrorBody(error) == IF error = "none" THEN {} ELSE HTTPExceptionBody

NoUpload ==
    img = [route |-> "none", suffix |-> "", size |-> 0, decodable |-> FALSE,
           outcome |-> "ok", error |-> "none", decoded |-> FALSE, inferred |-> FALSE, status |-> 0,
           error_body |-> {}]

UploadImage ==
    /\ \E route \in {"image", "annotated"}, sfx \in Suffixes, size \in 0..MaxBytes,
          decodable \in BOOLEAN, outcome \in ModelOutcomes :
         LET res == RouteResult(route, sfx, size, decodable, outcome, settings)
         IN img' = [route |-> route, suffix |-> sfx, size |-> size,
                    decodable |-> decodable, outcome |-> outcome,
                    error |-> res.error,
                    decoded |-> res.decoded, inferred |-> res.inferred,
                    status |-> IF res.error = "none" THEN 200 ELSE StatusCode(res.error),
                    error_body |-> RouteErrorBody(res.error)]
    /\ UNCHANGED <<settings, stream_vars, camera_vars, load_vars, call, loop_vars>>

(* ------------------- YOLOModelWrapper (yolo_model.py) ------------------- *)
\* Each thread calls get_model(), i.e. YOLOModelWrapper(): __new__, then
\* __init__, and then one of load_model(settings), predict(...) or the
\* readiness check.  A step is one access to the shared object; the fields
\* "unset" of a fresh instance are the attributes __init__ has not assigned yet.
FreshWrapper(req, cuda) ==
    /\ instance = "none"
    /\ lock = 0
    /\ initialized = "unset"
    /\ model = "unset"
    /\ wsettings = "unset"
    /\ requested = req
    /\ load_settings = req
    /\ cuda_available = cuda
    /\ tpc = [t \in Threads |-> "start"]
    /\ top = [t \in Threads |-> "none"]
    /\ tresult = [t \in Threads |-> "none"]
    /\ tseen = [t \in Threads |-> FALSE]
    /\ constructions = 0
    /\ loads_ok = 0
    /\ calls = {}

\* Settings as config.py declares them: device "cuda", half_precision True
NoWrapper == FreshWrapper([device |-> "cuda", half_precision |-> TRUE], TRUE)

\* is_loaded: self._initialized and self.model is not None
is_loaded == initialized = "True" /\ model = "loaded"

\* the thread ends its operation with `res`
Return(t, res) ==
    /\ tresult' = [tresult EXCEPT ![t] = res]
    /\ tpc' = [tpc EXCEPT ![t] = "done"]

Goto(t, where) ==
    /\ tpc' = [tpc EXCEPT ![t] = where]
    /\ UNCHANGED tresult

\* __new__, first test: if cls._instance is None
NewCheck(t) ==
    /\ tpc[t] = "start"
    /\ Goto(t, IF instance = "none" THEN "new_lock" ELSE "init")
    /\ UNCHANGED <<instance, lock, initialized, model, wsettings, load_settings, requested,
                   cuda_available, top, tseen, constructions, loads_ok, calls>>

\* __new__: with cls._lock: if cls._instance is None: cls._instance = ...
NewLocked(t) ==
    /\ tpc[t] = "new_lock"
    /\ lock = 0
    /\ instance' = "created"
    /\ Goto(t, "init")
    /\ UNCHANGED <<lock, initialized, model, wsettings, load_settings, requested,
                   cuda_available, top, tseen, constructions, loads_ok, calls>>

\* __init__: if not hasattr(self, "_initialized"), evaluated without the lock
InitCheck(t) ==
    /\ tpc[t] = "init"
    /\ Goto(t, IF initialized = "unset" THEN "init_initialized" ELSE "op")
    /\ UNCHANGED <<instance, lock, initialized, model, wsettings, load_settings, requested,
                   cuda_available, top, tseen, constructions, loads_ok, calls>>

\* __init__: self._initialized = False
InitInitialized(t) ==
    /\ tpc[t] = "init_initialized"
    /\ initialized' = "False"
    /\ Goto(t, "init_model")
    /\ UNCHANGED <<instance, lock, model, wsettings, load_settings, requested,
                   cuda_available, top, tseen, constructions, loads_ok, calls>>

\* __init__: self.model = None
InitModel(t) ==
    /\ tpc[t] = "init_model"
    /\ model' = "None"
    /\ Goto(t, "init_settings")
    /\ UNCHANGED <<instance, lock, initialized, wsettings, load_settings, requested,
                   cuda_available, top, tseen, constructions, loads_ok, calls>>

\* __init__: self._settings = None
InitSettings(t) ==
    /\ tpc[t] = "init_settings"
    /\ wsettings' = "None"
    /\ Goto(t, "op")
    /\ UNCHANGED <<instance, lock, initialized, model, load_settings, requested,
                   cuda_available, top, tseen, constructions, loads_ok, calls>>

\* load_model, first test outside the lock: already loaded, return
LoadFast(t) ==
    /\ tpc[t] = "op"
    /\ top' = [top EXCEPT ![t] = "load"]
    /\ IF is_loaded THEN Return(t, "skipped") ELSE Goto(t, "load_lock")
    /\ UNCHANGED <<instance, lock, initialized, model, wsettings, load_settings, requested,
                   cuda_available, tseen, constructions, loads_ok, calls>>

\* load_model: with self._lock: second test
LoadAcquire(t) ==
    /\ tpc[t] = "load_lock"
    /\ lock = 0
    /\ IF is_loaded
       THEN Return(t, "skipped") /\ UNCHANGED lock
       ELSE Goto(t, "load_construct") /\ lock' = t
    /\ UNCHANGED <<instance, initialized, model, wsettings, load_settings, requested,
                   cuda_available, top, tseen, constructions, loads_ok, calls>>

\* load_model fails: `except Exception` raises ModelLoadException and the
\* with block releases the lock.  `why` is what was caught.
LoadFail(t, why) ==
    /\ Return(t, why)
    /\ lock' = 0

\* load_model: the model file is missing or cannot be loaded, or
\* self.model = YOLO(settings.model_path)
LoadConstruct(t) ==
    /\ tpc[t] = "load_construct"
    /\ \/ /\ LoadFail(t, "load_failed_file")
          /\ UNCHANGED <<model, constructions>>
       \/ /\ model' = "loaded"
          /\ constructions' = constructions + 1
          /\ Goto(t, "load_device")
          /\ UNCHANGED lock
    /\ UNCHANGED <<instance, initialized, wsettings, load_settings, requested,
                   cuda_available, top, tseen, loads_ok, calls>>

\* load_model: if settings.device == "cuda" and not torch.cuda.is_available():
\* settings.device = "cpu"; settings.half_precision = False
LoadDevice_KeepHalf(t) ==
    /\ tpc[t] = "load_device"
    /\ load_settings' = IF load_settings.device = "cuda" /\ ~cuda_available
              THEN [load_settings EXCEPT !.device = "cpu"]
              ELSE load_settings
    /\ Goto(t, "load_to")
    /\ UNCHANGED <<instance, lock, initialized, model, wsettings, requested,
                   cuda_available, top, tseen, constructions, loads_ok, calls>>

LoadDevice(t) ==
    /\ tpc[t] = "load_device"
    /\ load_settings' = IF load_settings.device = "cuda" /\ ~cuda_available
              THEN [device |-> "cpu", half_precision |-> FALSE]
              ELSE load_settings
    /\ Goto(t, "load_to")
    /\ UNCHANGED <<instance, lock, initialized, model, wsettings, requested,
                   cuda_available, top, tseen, constructions, loads_ok, calls>>

\* load_model: self.model.to(settings.device); AttributeError when self.model
\* has been set to None in the meantime
LoadTo(t) ==
    /\ tpc[t] = "load_to"
    /\ IF model = "loaded"
       THEN Goto(t, "load_mark") /\ UNCHANGED lock
       ELSE LoadFail(t, "load_failed_attribute")
    /\ UNCHANGED <<instance, initialized, model, wsettings, load_settings, requested,
                   cuda_available, top, tseen, constructions, loads_ok, calls>>

\* load_model: self._settings = settings; self._initialized = True
LoadMark(t) ==
    /\ tpc[t] = "load_mark"
    /\ wsettings' = "settings"
    /\ initialized' = "True"
    /\ Goto(t, "load_warmup")
    /\ UNCHANGED <<instance, lock, model, load_settings, requested,
                   cuda_available, top, tseen, constructions, loads_ok, calls>>

\* load_model: the warm-up inference self.model.predict(dummy_image, ...,
\* device=settings.device, half=settings.half_precision) begins
LoadWarmup(t) ==
    /\ tpc[t] = "load_warmup"
    /\ IF model = "loaded"
       THEN /\ calls' = calls \cup {[kind |-> "warmup", device |-> load_settings.device,
                                     half |-> load_settings.half_precision,
                                     loaded |-> loads_ok > 0]}
            /\ Goto(t, "load_warming")
            /\ UNCHANGED lock
       ELSE /\ LoadFail(t, "load_failed_attribute")
            /\ UNCHANGED calls
    /\ UNCHANGED <<instance, initialized, model, wsettings, load_settings, requested,
                   cuda_available, top, tseen, constructions, loads_ok>>

\* load_model: the warm-up returns and load_model returns, or the warm-up
\* raises and load_model raises ModelLoadException
LoadEnd(t) ==
    /\ tpc[t] = "load_warming"
    /\ \/ /\ Return(t, "loaded")
          /\ lock' = 0
          /\ loads_ok' = loads_ok + 1
       \/ /\ LoadFail(t, "load_failed_warmup")
          /\ UNCHANGED loads_ok
    /\ UNCHANGED <<instance, initialized, model, wsettings, load_settings, requested,
                   cuda_available, top, tseen, constructions, calls>>

\* predict: if not self._initialized or self.model is None: raise
\* ModelLoadException("Model not loaded. Call load_model() first.")
PredictCheck(t) ==
    /\ tpc[t] = "op"
    /\ top' = [top EXCEPT ![t] = "predict"]
    /\ tseen' = [tseen EXCEPT ![t] = loads_ok > 0]
    /\ IF is_loaded THEN Goto(t, "predict_call") ELSE Return(t, "model_not_loaded")
    /\ UNCHANGED <<instance, lock, initialized, model, wsettings, load_settings, requested,
                   cuda_available, constructions, loads_ok, calls>>

\* predict: the defaults are read from self._settings and the underlying
\* model is invoked with device=self._settings.device,
\* half=self._settings.half_precision
PredictCall(t) ==
    /\ tpc[t] = "predict_call"
    /\ IF wsettings = "settings" /\ model = "loaded"
       THEN /\ calls' = calls \cup {[kind |-> "predict", device |-> load_settings.device,
                                     half |-> load_settings.half_precision,
                                     loaded |-> loads_ok > 0]}
            /\ Return(t, "predicted")
       ELSE /\ Return(t, "attribute_error")
            /\ UNCHANGED calls
    /\ UNCHANGED <<instance, lock, initialized, model, wsettings, load_settings, requested,
                   cuda_available, top, tseen, constructions, loads_ok>>

\* GET /health/ready: 503 if not model.is_loaded, else 200
readiness_check(t) ==
    /\ tpc[t] = "op"
    /\ top' = [top EXCEPT ![t] = "ready"]
    /\ tseen' = [tseen EXCEPT ![t] = loads_ok > 0]
    /\ Return(t, IF is_loaded THEN "ready_200" ELSE "not_ready_503")
    /\ UNCHANGED <<instance, lock, initialized, model, wsettings, load_settings, requested,
                   cuda_available, constructions, loads_ok, calls>>

(* ----------------------- one call of a function ------------------------ *)
NoCall == call = [fn |-> "none"]

\* raw detection rows of a model result: class id and confidence (percent)
ClassIds == 0..MaxClassId
Confidences == {50, 95}
Rows == [cls : ClassIds, conf : Confidences]

RECURSIVE SeqsUpTo(_, _)
SeqsUpTo(S, n) ==
    IF n = 0 THEN {<<>>}
    ELSE LET shorter == SeqsUpTo(S, n - 1)
         IN shorter \cup {Append(q, x) : q \in {r \in shorter : Len(r) = n - 1}, x \in S}

RowSeqs == SeqsUpTo(Rows, MaxBoxes)

\* the results a model call may hand back: None, an empty list, or a list
\* whose first element may lack orig_shape, may lack names, and whose boxes
\* may be None.  names is the set of ids the names table has an entry for.
RawResult ==
    [has_orig_shape : BOOLEAN, orig_shape : {<<480, 640>>},
     boxes_is_none : BOOLEAN, boxes : RowSeqs,
     has_names : BOOLEAN, names : SUBSET ClassIds]

RawResults ==
    {[is_none |-> TRUE, list |-> <<>>]} \cup
    {[is_none |-> FALSE, list |-> l] :
        l \in {<<>>} \cup {<<r>> : r \in {x \in RawResult :
                                            /\ x.boxes_is_none => x.boxes = <<>>
                                            /\ ~x.has_names => x.names = {}}}}

\* result.names[cls_id] for an id the table has
NameOf(id) == "weapon_" \o ToString(id)

\* one row of _process_results' loop:
\* cls_name = result.names[cls_id] if hasattr(result, 'names')
\*            else f"class_{cls_id}"
\* (the lookup raises KeyError for an id the table lacks)
MapRow(result, row) ==
    IF ~result.has_names
    THEN [error |-> "none", class_id |-> row.cls,
          class_name |-> "class_" \o ToString(row.cls), confidence |-> row.conf]
    ELSE IF row.cls \in result.names
    THEN [error |-> "none", class_id |-> row.cls,
          class_name |-> NameOf(row.cls), confidence |-> row.conf]
    ELSE [error |-> "KeyError", class_id |-> row.cls,
          class_name |-> "", confidence |-> row.conf]

Detection(m) ==
    [class_name |-> m.class_name, confidence |-> m.confidence, class_id |-> m.class_id]

\* _process_results: (detections, image_size), or the exception that leaves it
ProcessResults_NoBoxesGuard(results) ==
    IF results.is_none \/ Len(results.list) = 0
    THEN [error |-> "none", detections |-> <<>>, image_size |-> <<0, 0>>]
    ELSE [error |-> IF results.list[1].boxes_is_none THEN "TypeError" ELSE "none",
          detections |-> <<>>, image_size |-> <<0, 0>>]

process_results(results) ==
    IF results.is_none \/ Len(results.list) = 0
    THEN [error |-> "none", detections |-> <<>>, image_size |-> <<0, 0>>]
    ELSE LET result == results.list[1]
             image_size == IF result.has_orig_shape
                           THEN <<result.orig_shape[2], result.orig_shape[1]>>
                           ELSE <<0, 0>>
             mapped == [i \in 1..Len(result.boxes) |-> MapRow(result, result.boxes[i])]
         IN IF result.boxes_is_none \/ Len(result.boxes) = 0
            THEN [error |-> "none", detections |-> <<>>, image_size |-> image_size]
            ELSE IF \E i \in 1..Len(mapped) : mapped[i].error # "none"
            THEN [error |-> "KeyError", detections |-> <<>>, image_size |-> image_size]
            ELSE [error |-> "none",
                  detections |-> [i \in 1..Len(mapped) |-> Detection(mapped[i])],
                  image_size |-> image_size]

\* ImageDetectionResponse(detections=detections,
\*     detection_count=len(detections), has_weapons=len(detections) > 0, ...)
ImageDetectionResponse_ManyWeapons(detections) ==
    [detections |-> detections,
     detection_count |-> Len(detections),
     has_weapons |-> Len(detections) > 1]

ImageDetectionResponse(detections) ==
    [detections |-> detections,
     detection_count |-> Len(detections),
     has_weapons |-> Len(detections) > 0]

\* VideoFrameDetection(frame_number=..., detections=detections,
\*     detection_count=len(detections), has_weapons=len(detections) > 0, ...)
VideoFrameDetection(detections) ==
    [detections |-> detections,
     detection_count |-> Len(detections),
     has_weapons |-> Len(detections) > 0]

\* str(bool).lower()
StrBool(b) == IF b THEN "True" ELSE "False"
LowerBool(s) == IF s = "True" THEN "true" ELSE IF s = "False" THEN "false" ELSE s

\* the headers the routes derive from a result: of the response of
\* /detect/image/annotated and of every part of /detect/stream
DetectionHeaders(result) ==
    [X_Detection_Count |-> ToString(result.detection_count),
     X_Has_Weapons |-> LowerBool(StrBool(result.has_weapons))]

\* Settings.confidence_threshold, in percent
confidence_threshold == 40

\* confidence thresholds a request may carry; supplied = FALSE is None
Thresholds ==
    {[supplied |-> FALSE, value |-> 0]} \cup
    {[supplied |-> TRUE, value |-> v] : v \in {0, 50, 90}}

\* conf = confidence_threshold if confidence_threshold is not None
\*        else self.settings.confidence_threshold
ServiceConf_Falsy(threshold) ==
    IF threshold.supplied /\ threshold.value # 0
    THEN threshold
    ELSE [supplied |-> TRUE, value |-> confidence_threshold]

ServiceConf(threshold) ==
    IF threshold.supplied
    THEN threshold
    ELSE [supplied |-> TRUE, value |-> confidence_threshold]

\* YOLOModelWrapper.predict: if conf is None: conf = self._settings.confidence_threshold
WrapperConf(conf) == IF conf.supplied THEN conf.value ELSE confidence_threshold

\* a stub model: it returns the rows of the scene whose confidence is at least
\* the threshold it receives
StubPredict(scene, names, conf) ==
    [is_none |-> FALSE,
     list |-> <<[has_orig_shape |-> TRUE, orig_shape |-> <<480, 640>>,
                 boxes_is_none |-> FALSE,
                 boxes |-> SelectSeq(scene, LAMBDA r : r.conf >= conf),
                 has_names |-> TRUE, names |-> names]>>]

DetectFns == {"detect_from_image_file", "detect_and_annotate_image",
              "detect_from_camera", "generate_video_stream"}

\* the part the four detection functions share: threshold, predict,
\* _process_results, response; with the headers of the routes that send them
Detect(fn, threshold, scene, names) ==
    LET conf == WrapperConf(ServiceConf(threshold))
        out == process_results(StubPredict(scene, names, conf))
        response == IF fn \in {"detect_from_image_file", "detect_and_annotate_image"}
                    THEN ImageDetectionResponse(out.detections)
                    ELSE VideoFrameDetection(out.detections)
    IN IF out.error # "none"
       THEN [fn |-> fn, threshold |-> threshold, scene |-> scene,
             names |-> names, conf |-> conf,
             error |-> IF fn = "generate_video_stream" THEN "frame_dropped"
                       ELSE "DetectionException"]
       ELSE [fn |-> fn, threshold |-> threshold, scene |-> scene,
             names |-> names, conf |-> conf, error |-> "none",
             response |-> response,
             has_headers |-> fn \in {"detect_and_annotate_image", "generate_video_stream"},
             headers |-> DetectionHeaders(response)]

\* shapes of np.array(image): (h, w) for single-channel images, (h, w, c)
\* otherwise, with c = 2 (grey with alpha), 3 (RGB) or 4 (RGBA)
ImageShapes ==
    {<<h, w>> : h \in 1..MaxDim, w \in 1..MaxDim} \cup
    {<<h, w, c>> : h \in 1..MaxDim, w \in 1..MaxDim, c \in {2, 3, 4}}

\* the channel normalisation of the two image functions:
\*   if image_np.shape[-1] == 4: cvtColor(image_np, COLOR_RGBA2RGB)
\*   elif len(image_np.shape) == 2: cvtColor(image_np, COLOR_GRAY2RGB)
\* cvtColor with COLOR_RGBA2RGB raises for a single-channel array, and the
\* `except Exception` around the decoding raises InvalidImageException
NormalizeChannels(shape) ==
    IF shape[Len(shape)] = 4
    THEN IF Len(shape) = 3
         THEN [error |-> "none", shape |-> <<shape[1], shape[2], 3>>]
         ELSE [error |-> "InvalidImageException", shape |-> shape]
    ELSE IF Len(shape) = 2
    THEN [error |-> "none", shape |-> <<shape[1], shape[2], 3>>]
    ELSE [error |-> "none", shape |-> shape]

CallDecode ==
    /\ call.fn = "none"
    /\ \E shape \in ImageShapes :
          call' = [fn |-> "decode", shape |-> shape, out |-> NormalizeChannels(shape)]
    /\ UNCHANGED <<stream_vars, camera_vars, image_vars, load_vars, loop_vars>>

CallProcessResults ==
    /\ call.fn = "none"
    /\ \E results \in RawResults :
          call' = [fn |-> "_process_results", results |-> results,
                   out |-> process_results(results)]
    /\ UNCHANGED <<stream_vars, camera_vars, image_vars, load_vars, loop_vars>>

CallDetect ==
    /\ call.fn = "none"
    /\ \E fn \in DetectFns, threshold \in Thresholds, scene \in RowSeqs,
          names \in SUBSET ClassIds :
          call' = Detect(fn, threshold, scene, names)
    /\ UNCHANGED <<stream_vars, camera_vars, image_vars, load_vars, loop_vars>>

(* ----------------------- the serving process -------------------------- *)
\* uvicorn runs the application in one process (workers = 1) with one event
\* loop thread.  Every route handler and every service function that infers
\* is `async def`; the code between two awaits of a handler runs on the event
\* loop thread without interruption, and a call that does not await (predict,
\* cap.read(), decoding) keeps that thread until it returns.
RequestKinds == {"image", "annotated", "camera", "stream", "health"}

NoRequests ==
    /\ loop = 0
    /\ request = [r \in Requests |-> [kind |-> "none", pc |-> "idle"]]

SetReq(r, kind, where) == request' = [request EXCEPT ![r] = [kind |-> kind, pc |-> where]]

\* a client sends a request; it waits until the event loop gets to it
SendRequest(r) ==
    /\ request[r].pc = "idle"
    /\ \E kind \in RequestKinds : SetReq(r, kind, "queued")
    /\ UNCHANGED loop

\* GET /health: the handler has no await and no blocking call
health_check(r) ==
    /\ request[r] = [kind |-> "health", pc |-> "queued"]
    /\ loop = 0
    /\ SetReq(r, "health", "answered")
    /\ UNCHANGED loop

\* detect_image, detect_image_annotated: extension check, then
\* `await file.read()`, which suspends the handler
ReadUpload(r) ==
    /\ request[r].kind \in {"image", "annotated"}
    /\ request[r].pc = "queued"
    /\ loop = 0
    /\ SetReq(r, request[r].kind, "uploaded")
    /\ UNCHANGED loop

\* the handler goes on into the service function: decoding (or opening and
\* reading the camera) and self.model.predict(...), called directly from the
\* coroutine
BeginInference_InThreadPool(r) ==
    /\ \/ request[r].kind \in {"image", "annotated"} /\ request[r].pc = "uploaded"
       \/ request[r].kind = "camera" /\ request[r].pc = "queued"
    /\ SetReq(r, request[r].kind, "predict")
    /\ UNCHANGED loop

BeginInference(r) ==
    /\ \/ request[r].kind \in {"image", "annotated"} /\ request[r].pc = "uploaded"
       \/ request[r].kind = "camera" /\ request[r].pc = "queued"
    /\ loop = 0
    /\ loop' = r
    /\ SetReq(r, request[r].kind, "predict")

\* predict returns (or raises); the handler builds its response
EndInference(r) ==
    /\ request[r].kind \in {"image", "annotated", "camera"}
    /\ request[r].pc = "predict"
    /\ loop' = IF loop = r THEN 0 ELSE loop
    /\ SetReq(r, request[r].kind, "answered")

\* detect_video_stream returns StreamingResponse(frame_generator()); the
\* response is started and the body iterator is about to be pulled
StartStream(r) ==
    /\ request[r] = [kind |-> "stream", pc |-> "queued"]
    /\ loop = 0
    /\ SetReq(r, "stream", "pull")
    /\ UNCHANGED loop

\* the response pulls frame_generator, an async generator that iterates the
\* plain generator generate_video_stream in a `for` loop: cap.read() runs on
\* the event loop thread
PullStream(r) ==
    /\ request[r] = [kind |-> "stream", pc |-> "pull"]
    /\ loop = 0
    /\ loop' = r
    /\ SetReq(r, "stream", "frame_read")

\* cap.read() returns a frame to process (after any number of skipped
\* frames, which are read in the same way), or no frame
StreamRead(r) ==
    /\ request[r] = [kind |-> "stream", pc |-> "frame_read"]
    /\ \/ SetReq(r, "stream", "predict") /\ UNCHANGED loop
       \/ SetReq(r, "stream", "answered") /\ loop' = 0

\* predict returns and the part is yielded to the response, which awaits its
\* send; or the frame fails and the loop of the generator reads on
StreamInferred(r) ==
    /\ request[r] = [kind |-> "stream", pc |-> "predict"]
    /\ \/ SetReq(r, "stream", "pull") /\ loop' = 0
       \/ SetReq(r, "stream", "frame_read") /\ UNCHANGED loop

\* the client of a stream disconnects between two parts
StreamDisconnect(r) ==
    /\ request[r] = [kind |-> "stream", pc |-> "pull"]
    /\ SetReq(r, "stream", "answered")
    /\ UNCHANGED loop

(* --------------------------- specifications ---------------------------- *)
\* streaming sessions
Init ==
    /\ NoSession
    /\ NoCamReq
    /\ settings = [max_image_size |-> MaxBytes]
    /\ NoUpload
    /\ NoWrapper
    /\ NoCall
    /\ NoRequests

\* one step of session s: of the route, of its generator, or of its client
SessionNext(s) ==
    /\ \/ StreamRequest(s)
       \/ OpenCamera(s)
       \/ ReadFrame(s)
       \/ ProcessFrame(s)
       \/ Resume(s)
       \/ Disconnect(s)
       \/ Close(s)
       \/ Finally(s)
    /\ UNCHANGED <<camera_vars, image_vars, load_vars, call, loop_vars>>

Next == \E s \in Sessions : SessionNext(s)

Spec == Init /\ [][Next]_vars

\* one session on its own (sessions share no variable).  The generator's own
\* code runs to its next yield or to its end once it has been pulled, and an
\* abandoned generator is closed as soon as the last reference to it is
\* dropped; nothing is assumed about the client.
NextOne == SessionNext(1)

FairSpec ==
    /\ Init
    /\ [][NextOne]_vars
    /\ WF_vars(GeneratorStep(1) /\ UNCHANGED <<camera_vars, image_vars, load_vars, call, loop_vars>>)

\* single camera frames
NextCamera ==
    \E r \in CamReqs :
       /\ \/ CamOpen(r)
          \/ CamRead(r)
          \/ CamInfer(r)
       /\ UNCHANGED <<stream_vars, image_vars, load_vars, call, loop_vars>>

SpecCamera == Init /\ [][NextCamera]_vars

\* one stream session and one single-frame request, each with its own camera
\* handle
NextDevice ==
    \/ SessionNext(1)
    \/ /\ \/ CamOpen(1)
          \/ CamRead(1)
          \/ CamInfer(1)
       /\ UNCHANGED <<stream_vars, image_vars, load_vars, call, loop_vars>>

SpecDevice == Init /\ [][NextDevice]_vars

\* image uploads, under any configured max_image_size
InitImage ==
    /\ NoSession
    /\ NoCamReq
    /\ \E m \in 1..MaxBytes : settings = [max_image_size |-> m]
    /\ NoUpload
    /\ NoWrapper
    /\ NoCall
    /\ NoRequests

NextImage == UploadImage

SpecImage == InitImage /\ [][NextImage]_vars

\* threads sharing the model wrapper, under any configured device and
\* precision, with and without CUDA
InitLoad ==
    /\ NoSession
    /\ NoCamReq
    /\ settings = [max_image_size |-> MaxBytes]
    /\ NoUpload
    /\ \E req \in [device : {"cuda", "cpu"}, half_precision : BOOLEAN],
          cuda \in BOOLEAN : FreshWrapper(req, cuda)
    /\ NoCall
    /\ NoRequests

NextLoad ==
    \E t \in Threads :
       /\ \/ NewCheck(t)
          \/ NewLocked(t)
          \/ InitCheck(t)
          \/ InitInitialized(t)
          \/ InitModel(t)
          \/ InitSettings(t)
          \/ LoadFast(t)
          \/ LoadAcquire(t)
          \/ LoadConstruct(t)
          \/ LoadDevice(t)
          \/ LoadTo(t)
          \/ LoadMark(t)
          \/ LoadWarmup(t)
          \/ LoadEnd(t)
          \/ PredictCheck(t)
          \/ PredictCall(t)
          \/ readiness_check(t)
       /\ UNCHANGED <<stream_vars, camera_vars, image_vars, call, loop_vars>>

SpecLoad == InitLoad /\ [][NextLoad]_vars

\* requests served by the one event loop of the process
NextLoop ==
    \E r \in Requests :
       /\ \/ SendRequest(r)
          \/ health_check(r)
          \/ ReadUpload(r)
          \/ BeginInference(r)
          \/ EndInference(r)
          \/ StartStream(r)
          \/ PullStream(r)
          \/ StreamRead(r)
          \/ StreamInferred(r)
          \/ StreamDisconnect(r)
       /\ UNCHANGED <<stream_vars, camera_vars, image_vars, load_vars, call>>

SpecLoop == Init /\ [][NextLoop]_vars

\* single calls of the functions of the detection pipeline
NextCall == CallProcessResults \/ CallDetect \/ CallDecode

SpecCall == Init /\ [][NextCall]_vars


(* ------------------------------ claims --------------------------------- *)
Inferred(e) == e.fate \in {"selected", "failed", "emitted"}
Terminal == {"done", "raised", "closed"}

\* C1: with frame_skip = k a frame that was read is run through inference (and
\* possibly emitted) only if frame_count mod (k+1) = 0 at that moment; every
\* other frame read is dropped without inference; with k = 0 no frame is dropped.
C1_FrameSkipPolicy ==
    \A s \in Sessions :
       /\ \A i \in DOMAIN log[s] :
            /\ Inferred(log[s][i]) => log[s][i].count % (frame_skip[s] + 1) = 0
            /\ log[s][i].count % (frame_skip[s] + 1) # 0 => log[s][i].fate = "skipped"
            /\ frame_skip[s] = 0 => Inferred(log[s][i])
       /\ \A j \in DOMAIN emitted[s] :
            /\ emitted[s][j].frame_number % (frame_skip[s] + 1) = 0
            /\ log[s][emitted[s][j].raw + 1].fate = "emitted"
       /\ pc[s] = "process" => frame_count[s] % (frame_skip[s] + 1) = 0

C1_Witness ==
    \E s \in Sessions :
       /\ frame_skip[s] = 1
       /\ \E i, j \in DOMAIN log[s] :
            log[s][i].fate = "emitted" /\ log[s][j].fate = "skipped"

\* C2: the frame_number of every emitted result is the raw read index of its
\* frame, that index is divisible by k+1, and the counter advances once per
\* frame read, whether the frame was skipped, failed or emitted.
C2_FrameNumberIsRawIndex ==
    \A s \in Sessions :
       /\ \A j \in DOMAIN emitted[s] :
            /\ emitted[s][j].frame_number = emitted[s][j].raw
            /\ emitted[s][j].raw % (frame_skip[s] + 1) = 0
       /\ \A i \in DOMAIN log[s] : log[s][i].count = i - 1

\* C3: after N frames read, at most ceil(N / (k+1)) pairs have been emitted,
\* whatever frames failed.
C3_EmittedAtMostCeil ==
    \A s \in Sessions :
       Len(emitted[s]) <= CeilDiv(Len(log[s]), frame_skip[s] + 1)

C3_Witness ==
    \E s \in Sessions :
       /\ frame_skip[s] = 1
       /\ Len(log[s]) = 3
       /\ Len(emitted[s]) = 2

NoFailureBetween(s, lo, hi) ==
    \A i \in DOMAIN log[s] : (lo < i - 1 /\ i - 1 < hi) => log[s][i].fate # "failed"

\* C4: within a session emitted frame_numbers are strictly increasing,
\* consecutive ones differ by exactly frame_skip+1 when no frame failed in
\* between, and the first result of every session has frame_number 0.
C4_FrameNumberSequence ==
    \A s \in Sessions :
       /\ Len(emitted[s]) > 0 => emitted[s][1].frame_number = 0
       /\ \A j \in 1..(Len(emitted[s]) - 1) :
            /\ emitted[s][j + 1].frame_number > emitted[s][j].frame_number
            /\ NoFailureBetween(s, emitted[s][j].raw, emitted[s][j + 1].raw)
                 => emitted[s][j + 1].frame_number - emitted[s][j].frame_number
                      = frame_skip[s] + 1

\* a second session emits its first result after another one got past frame 0
C4_Witness ==
    \E s, u \in Sessions :
       /\ s # u
       /\ Len(emitted[s]) >= 2
       /\ Len(emitted[u]) = 1
       /\ pc[u] = "suspended"

\* C5: a frame whose inference, mapping or encoding raises does not end the
\* session and surfaces no error: the camera stays open and the loop reads
\* on; a frame processed successfully is emitted; the session ends only on
\* end of stream, an exception of open/read, or cancellation.
C5_FaultIsolation ==
    /\ [][\A s \in Sessions :
            (pc[s] = "process" /\ pc'[s] # "process") =>
               /\ cap'[s] = "open" /\ exc'[s] = "none" /\ cause'[s] = "none"
               /\ Last(log'[s]).fate = "failed" =>
                     pc'[s] = "read" /\ emitted'[s] = emitted[s]
               /\ Last(log'[s]).fate = "emitted" =>
                     pc'[s] = "suspended" /\ Len(emitted'[s]) = Len(emitted[s]) + 1
               /\ Last(log'[s]).fate \in {"failed", "emitted"}]_vars
    /\ [](\A s \in Sessions :
            pc[s] \in Terminal \cup {"finally", "abandoned"} =>
               cause[s] \in {"eos", "open_failed", "open_raised", "read_raised",
                             "cancelled"})

C5_Witness ==
    \E s \in Sessions : \E i, j \in DOMAIN log[s] :
       i < j /\ log[s][i].fate = "failed" /\ log[s][j].fate = "emitted"


\* C6: a camera that was opened is released exactly once by the time the
\* operation has ended, on every exit path of generate_video_stream and of
\* detect_from_camera, and release() is not invoked for a camera whose open
\* failed.
C6_ReleaseExactlyOnce ==
    /\ \A s \in Sessions :
          pc[s] \in Terminal =>
             /\ cap[s] = "released" => releases[s] = 1
             /\ cause[s] \notin {"open_failed", "open_raised"} => releases[s] = 1
             /\ cause[s] \in {"open_failed", "open_raised"} => releases[s] = 0
    /\ \A r \in CamReqs :
          cam_pc[r] = "done" =>
             /\ cam_cap[r] \in {"open", "released"} => cam_releases[r] = 1
             /\ cam_cap[r] \in {"none", "unopened"} => cam_releases[r] = 0

C8_CameraNotFound404 ==
    \A s \in Sessions :
       cause[s] = "open_failed" => http_status[s] = 404 /\ sent[s] = <<>>

\* C9: on end of stream the generator finishes without an exception, the
\* camera is released and no inference is run for that read; a session whose
\* camera signals end of stream terminates, whatever failed before.
C9_EndOfStreamTerminates ==
    /\ [][\A s \in Sessions :
            (cause[s] # "eos" /\ cause'[s] = "eos") =>
               log'[s] = log[s] /\ emitted'[s] = emitted[s] /\ pc'[s] = "finally"]_vars
    /\ [](\A s \in Sessions :
            cause[s] = "eos" =>
               /\ exc[s] = "none"
               /\ pc[s] \in {"finally", "done"}
               /\ pc[s] = "done" => cap[s] = "released" /\ releases[s] = 1)
    /\ \A s \in Sessions : (cause[s] = "eos") ~> (pc[s] = "done")

C9_Witness ==
    \E s \in Sessions :
       /\ pc[s] = "done"
       /\ cause[s] = "eos"
       /\ cap[s] = "released"
       /\ \E i \in DOMAIN log[s] : log[s][i].fate = "failed"

Oversize == img.route # "none" /\ img.size > settings.max_image_size

\* C10 (as claimed): every upload longer than max_image_size yields
\* ImageTooLarge (413), whatever its file name or content, without decoding
\* or inference.
C10_OversizeAlways413 ==
    Oversize =>
       /\ img.error = "ImageTooLargeException"
       /\ img.status = 413
       /\ ~img.decoded /\ ~img.inferred

\* C10 (amended): an upload longer than max_image_size yields ImageTooLarge
\* (413) when its file name has an allowed extension and InvalidImage (400)
\* otherwise, whatever its content; in both cases without decoding or inference.
C10_OversizeAllowedFormat413 ==
    Oversize =>
       /\ ~img.decoded /\ ~img.inferred
       /\ IF validate_image_format(img.suffix, allowed_image_formats)
          THEN img.error = "ImageTooLargeException" /\ img.status = 413
          ELSE img.error = "InvalidImageException" /\ img.status = 400

C10_Witness ==
    /\ Oversize
    /\ img.suffix = ".JPG"
    /\ img.status = 413
    /\ ~img.decodable

\* an upload that passed the extension check, fits the size limit and cannot be
\* decoded
Undecodable ==
    /\ img.route # "none"
    /\ validate_image_format(img.suffix, allowed_image_formats)
    /\ img.size <= settings.max_image_size
    /\ ~img.decodable

\* C11: an upload within the size limit whose bytes cannot be decoded fails
\* with InvalidImage (400) in detect_from_image_file and in
\* detect_and_annotate_image: never DetectionException/500, and the model is
\* not invoked.
C11_UndecodableIsInvalidImage ==
    Undecodable =>
       /\ img.error = "InvalidImageException"
       /\ img.status = 400
       /\ img.decoded
       /\ ~img.inferred

C11_Witness ==
    /\ Undecodable
    /\ img.route = "annotated"
    /\ img.size = settings.max_image_size
    /\ img.status = 400

\* no load_model call has failed for a reason outside the program (model file
\* missing or unreadable, warm-up inference raising)
NoLoadFault ==
    \A t \in Threads : tresult[t] \notin {"load_failed_file", "load_failed_warmup"}

\* C13: when several threads call get_model() and load_model(settings) for
\* the first time, the model is constructed and loaded exactly once, by one
\* caller, and no caller ends with an error.
C13_LoadedExactlyOnce ==
    NoLoadFault =>
       /\ constructions <= 1
       /\ loads_ok <= 1
       /\ \A t \in Threads : tresult[t] # "load_failed_attribute"

\* C14: predict() fails with model-not-loaded, without invoking the
\* underlying model, whenever no load_model call has completed successfully.
C14_PredictRequiresCompletedLoad ==
    /\ \A t \in Threads :
          top[t] = "predict" /\ ~tseen[t] => tresult[t] = "model_not_loaded"
    /\ \A c \in calls : c.kind = "predict" => c.loaded

\* C15: GET /health/ready answers 200 only after a load_model call has
\* completed without error, and 503 in every other state.
C15_ReadyOnlyAfterLoad ==
    \A t \in Threads :
       top[t] = "ready" =>
          /\ tresult[t] = "ready_200" => tseen[t]
          /\ ~tseen[t] => tresult[t] = "not_ready_503"

\* device and precision the claim expects to be in effect
EffectiveSettings ==
    IF requested.device = "cuda" /\ ~cuda_available
    THEN [device |-> "cpu", half_precision |-> FALSE]
    ELSE requested

\* C16: with device "cuda" requested and CUDA unavailable the load goes on
\* with device "cpu" and half precision off, and every invocation of the
\* model (warm-up and predict) passes device "cpu", half = false; otherwise
\* the requested device and precision are used unchanged.
C16_DeviceFallback ==
    /\ \A c \in calls :
          /\ c.device = EffectiveSettings.device
          /\ c.half = EffectiveSettings.half_precision
    /\ \A t \in Threads :
          \/ tpc[t] \in {"load_to", "load_mark", "load_warmup", "load_warming"}
          \/ tresult[t] = "loaded"
          => load_settings = EffectiveSettings
    /\ cuda_available \/ requested.device # "cuda" => load_settings = requested

C16_Witness ==
    /\ requested = [device |-> "cuda", half_precision |-> TRUE]
    /\ ~cuda_available
    /\ \E t \in Threads : tresult[t] = "loaded"
    /\ \E c \in calls : c.kind = "predict" /\ c.device = "cpu" /\ ~c.half

\* C19: a domain error raised while handling a /detect request is answered
\* with the status code of its class and a JSON body with the fields error,
\* details and path.
C19_StructuredErrorBody ==
    img.error # "none" =>
       /\ img.status = StatusCode(img.error)
       /\ img.error_body = weapon_detection_exception_handler

\* C12: in every response (ImageDetectionResponse, VideoFrameDetection) and
\* in the X-Has-Weapons / X-Detection-Count headers derived from it,
\* has_weapons is true iff detection_count > 0, and detection_count is the
\* length of the detections list.
C12_HasWeaponsIffCount ==
    call.fn \in DetectFns /\ call.error = "none" =>
       /\ call.response.detection_count = Len(call.response.detections)
       /\ call.response.has_weapons <=> call.response.detection_count > 0
       /\ call.headers.X_Detection_Count = ToString(Len(call.response.detections))
       /\ call.headers.X_Has_Weapons = "true" <=> call.headers.X_Detection_Count # "0"
       /\ call.headers.X_Has_Weapons \in {"true", "false"}

C12_Witness ==
    /\ call.fn = "generate_video_stream"
    /\ call.error = "none"
    /\ call.has_headers
    /\ call.response.detection_count = 1
    /\ call.headers.X_Has_Weapons = "true"

\* a call of _process_results on a result without boxes
EmptyResult ==
    /\ call.fn = "_process_results"
    /\ \/ call.results.is_none
       \/ Len(call.results.list) = 0
       \/ call.results.list[1].boxes_is_none
       \/ Len(call.results.list[1].boxes) = 0

\* C17: _process_results never fails on an empty result: an empty result
\* list, or a first result without boxes, gives an empty detection list
\* (detection_count 0, has_weapons false), and a result without image-size
\* metadata gives the image size (0, 0).
C17_EmptyResultIsNotAnError ==
    /\ EmptyResult =>
          /\ call.out.error = "none"
          /\ call.out.detections = <<>>
          /\ ImageDetectionResponse(call.out.detections).detection_count = 0
          /\ ~ImageDetectionResponse(call.out.detections).has_weapons
    /\ /\ call.fn = "_process_results"
       /\ call.out.error = "none"
       /\ \/ call.results.is_none
          \/ Len(call.results.list) = 0
          \/ ~call.results.list[1].has_orig_shape
       => call.out.image_size = <<0, 0>>

C17_Witness ==
    /\ EmptyResult
    /\ Len(call.results.list) = 1
    /\ call.results.list[1].boxes_is_none
    /\ ~call.results.list[1].has_orig_shape
    /\ call.out.image_size = <<0, 0>>

\* C18: each raw row is mapped on its own: a row whose class id has no name
\* (no names table, or no entry for the id) becomes a Detection with
\* class_name "class_<id>", and the output has one Detection per raw row.
C18_RowsMappedIndependently ==
    call.fn = "_process_results" /\ ~EmptyResult =>
       LET result == call.results.list[1]
       IN /\ call.out.error = "none"
          /\ Len(call.out.detections) = Len(result.boxes)
          /\ \A i \in 1..Len(call.out.detections) :
                /\ call.out.detections[i].class_id = result.boxes[i].cls
                /\ call.out.detections[i].class_name =
                      IF result.has_names /\ result.boxes[i].cls \in result.names
                      THEN NameOf(result.boxes[i].cls)
                      ELSE "class_" \o ToString(result.boxes[i].cls)

\* C20: the threshold handed to the model is the request's
\* confidence_threshold whenever one is supplied, 0 included, and the
\* configured default otherwise; with the stub model a request with
\* threshold 0.9 on a scene whose only detection has confidence 0.5 returns
\* zero detections.
C20_ThresholdPassedThrough ==
    call.fn \in DetectFns =>
       /\ call.conf = IF call.threshold.supplied
                      THEN call.threshold.value
                      ELSE confidence_threshold
       /\ (/\ call.threshold = [supplied |-> TRUE, value |-> 90]
           /\ Len(call.scene) = 1
           /\ call.scene[1].conf = 50)
          => (/\ call.error = "none"
              /\ call.response.detections = <<>>
              /\ call.response.detection_count = 0)

C20_Witness ==
    /\ call.fn = "detect_from_image_file"
    /\ call.threshold = [supplied |-> TRUE, value |-> 90]
    /\ call.scene = <<[cls |-> 1, conf |-> 50]>>
    /\ call.names = {0}
    /\ call.conf = 90
    /\ call.error = "none"
    /\ call.response.detection_count = 0

\* C21: the stream is pull-based with one frame in flight: one pair per
\* processed frame, no frame is read while a pair waits to be pulled, and the
\* route sends one multipart part per pair, in the order of the pairs.
C21_OnePartPerPairInOrder ==
    \A s \in Sessions :
       /\ Len(sent[s]) = Len(emitted[s])
       /\ \A j \in DOMAIN emitted[s] :
             /\ sent[s][j] = emitted[s][j].frame_number
             /\ log[s][emitted[s][j].raw + 1].fate = "emitted"
             /\ \A i \in DOMAIN emitted[s] : i < j => emitted[s][i].raw < emitted[s][j].raw
       /\ Cardinality({i \in DOMAIN log[s] : log[s][i].fate = "emitted"}) = Len(emitted[s])
       /\ pc[s] \in {"suspended", "abandoned"} =>
             /\ Len(emitted[s]) > 0
             /\ Last(emitted[s]).raw = Len(log[s]) - 1

C21_Witness ==
    \E s \in Sessions :
       /\ pc[s] = "suspended"
       /\ Len(emitted[s]) = 2
       /\ Len(sent[s]) = 2
       /\ Len(log[s]) = 3

\* what a stream session owns
SessionState(s) ==
    <<pc[s], frame_skip[s], frame_count[s], cap[s], releases[s], exc[s], cause[s],
      log[s], emitted[s], sent[s]>>

\* C27: each stream session owns the camera handle it opened and its frame
\* counter: a step of one session leaves every other session's handle,
\* counter and frames as they are, and a handle is released only by the
\* finally block of its own session.
C27_ExclusiveHandle ==
    [][\A s \in Sessions :
          /\ SessionState(s)' # SessionState(s) =>
                \A t \in Sessions \ {s} : SessionState(t)' = SessionState(t)
          /\ cap[s] # "released" /\ cap'[s] = "released" => pc[s] = "finally"]_vars

C27_Witness ==
    \E s, t \in Sessions :
       /\ s # t
       /\ cap[s] = "released" /\ cause[s] = "cancelled"
       /\ cap[t] = "open" /\ Len(log[t]) > 0
       /\ frame_count[s] # frame_count[t]

\* C29: a frame whose processing failed leaves frame_count unchanged, so the
\* frame read right after it is selected (never skipped) and, if emitted,
\* carries the frame_number the failed frame would have carried.
C29_FailedFrameKeepsCounter ==
    \A s \in Sessions :
       /\ \A i \in DOMAIN log[s] :
             log[s][i].fate = "failed" /\ i < Len(log[s]) =>
                /\ log[s][i + 1].count = log[s][i].count
                /\ log[s][i + 1].fate # "skipped"
       /\ \A j \in DOMAIN emitted[s] :
             LET i == emitted[s][j].raw
             IN i > 0 /\ log[s][i].fate = "failed" =>
                   emitted[s][j].frame_number = log[s][i].count
       /\ pc[s] = "read" /\ Len(log[s]) > 0 /\ Last(log[s]).fate = "failed" =>
             frame_count[s] = Last(log[s]).count

C29_Witness ==
    \E s \in Sessions :
       /\ frame_skip[s] = 1
       /\ Len(log[s]) = 3
       /\ log[s][1].fate = "emitted"
       /\ log[s][2].fate = "skipped"
       /\ log[s][3].fate = "failed"
       /\ pc[s] = "read"
       /\ frame_count[s] = 2

\* C23: a camera handle goes Closed -> Open -> (Reading)* -> Closed: frames
\* are read only from a handle whose open has been checked and that has not
\* been released, never after a read signalled end of stream, and a handle
\* is opened once and not reopened after its release.
C23_HandleLifeCycle ==
    [][/\ \A s \in Sessions :
             /\ Len(log'[s]) > Len(log[s]) => cap[s] = "open" /\ cause[s] = "none"
             /\ cap[s] = "released" => cap'[s] = "released" /\ log'[s] = log[s]
             /\ cause[s] = "eos" => log'[s] = log[s]
             /\ cap'[s] = "open" /\ cap[s] # "open" => cap[s] = "none"
       /\ \A r \in CamReqs :
             /\ cam_pc[r] = "read" /\ cam_pc'[r] # "read" => cam_cap[r] = "open"
             /\ cam_cap[r] = "released" =>
                   cam_cap'[r] = "released" /\ cam_pc'[r] \notin {"idle", "read"}
             /\ cam_cap'[r] = "open" /\ cam_cap[r] # "open" => cam_cap[r] = "none"]_vars

C23_Witness ==
    /\ cap[1] = "released"
    /\ cause[1] = "eos"
    /\ Len(log[1]) >= 2
    /\ cam_cap[1] = "released"
    /\ cam_pc[1] = "done"

\* C24: detect_from_camera reports a camera that cannot be opened as
\* CameraNotFound (404), without reading, and an opened camera whose read
\* returns no frame as VideoStreamException (500), after releasing it; the
\* model is invoked in neither case and neither error becomes
\* DetectionException.
C24_DistinctCameraFailures ==
    \A r \in CamReqs :
       /\ cam_cap[r] = "unopened" <=> cam_exc[r] = "CameraNotFoundException"
       /\ cam_exc[r] = "CameraNotFoundException" =>
             /\ cam_status[r] = 404
             /\ cam_releases[r] = 0
             /\ ~cam_inferred[r]
       /\ cam_pc[r] = "done" /\ cam_cap[r] = "released" /\ ~cam_inferred[r]
             <=> cam_exc[r] = "VideoStreamException"
       /\ cam_exc[r] = "VideoStreamException" =>
             /\ cam_status[r] = 500
             /\ cam_releases[r] = 1

C24_Witness ==
    \E q, r \in CamReqs :
       /\ cam_exc[q] = "CameraNotFoundException" /\ cam_status[q] = 404
       /\ cam_exc[r] = "VideoStreamException" /\ cam_cap[r] = "released"

\* C28: the wrapper is one instance for the whole process and its loaded
\* state is monotonic: once is_loaded is true it never becomes false again,
\* whatever get_model() and load_model() calls run in other threads.
C28_LoadedStateMonotonic ==
    [][/\ instance = "created" => instance' = "created"
       /\ is_loaded => is_loaded']_vars

\* the upload reached the service and passed the size check and the decoding
Decoded ==
    /\ img.route # "none"
    /\ validate_image_format(img.suffix, allowed_image_formats)
    /\ img.size <= settings.max_image_size
    /\ img.decodable

\* C30: every failure of detect_from_image_file and
\* detect_and_annotate_image is ImageTooLarge, InvalidImage or
\* DetectionException; ImageTooLarge wins over InvalidImage for bytes that
\* are oversize and undecodable; every failure of the model (model not
\* loaded included) or of the result mapping is a DetectionException (500).
C30_ClosedErrorSet ==
    /\ img.error \in {"none", "ImageTooLargeException", "InvalidImageException",
                      "DetectionException"}
    /\ /\ Oversize
       /\ validate_image_format(img.suffix, allowed_image_formats)
       /\ ~img.decodable
       => img.error = "ImageTooLargeException"
    /\ /\ Decoded
       /\ img.outcome \in {"model_not_loaded", "predict_raises", "process_results_raises"}
       => img.error = "DetectionException" /\ img.status = 500
    /\ Decoded /\ img.outcome = "encode_raises" =>
          IF img.route = "annotated"
          THEN img.error = "DetectionException" /\ img.status = 500
          ELSE img.error = "none"
    /\ Decoded /\ img.outcome = "ok" => img.error = "none" /\ img.status = 200

C30_Witness ==
    /\ Decoded
    /\ img.route = "image"
    /\ img.outcome = "model_not_loaded"
    /\ img.error = "DetectionException"
    /\ img.status = 500

\* C22: for every decodable upload the array handed to the model has 3
\* channels: RGBA images of any size are converted, and single-channel
\* images of any size, width 4 included, are expanded instead of being
\* rejected as InvalidImage.
C22_ThreeChannels ==
    call.fn = "decode" =>
       /\ call.out.error = "none"
       /\ call.out.shape = <<call.shape[1], call.shape[2], 3>>

\* requests inside self.model.predict / inside a blocking call
InPredict == {r \in Requests : request[r].pc = "predict"}
Blocking == {r \in Requests : request[r].pc \in {"predict", "frame_read"}}

\* C25: inference calls of concurrently served requests (image, annotated
\* image, camera frame, streams) never overlap: at most one predict call is
\* executing at any moment.
C25_PredictCallsSerialized ==
    /\ Cardinality(InPredict) <= 1
    /\ \A r \in Blocking : loop = r

C25_Witness ==
    \E q, r \in Requests :
       /\ request[q] = [kind |-> "stream", pc |-> "predict"]
       /\ request[r] = [kind |-> "image", pc |-> "uploaded"]

\* C26: a blocking inference or camera read of one request does not stall
\* other requests: while a request is inside predict or a frame read, a
\* GET /health that has arrived can be answered.
C26_HealthNotStalled ==
    \A r, h \in Requests :
       r \in Blocking /\ request[h] = [kind |-> "health", pc |-> "queued"]
          => ENABLED health_check(h)

====
